---- MODULE Spec2Model ----
(***************************************************************************)
(* A model of misc/hashtable.py: class HashTable, a fixed array of         *)
(* LinkedList buckets holding (key, value) tuples.  Every method of the    *)
(* class is an operator on the bucket array, computed as the method        *)
(* computes it; every call of a method is one action of the state machine. *)
(* The LinkedList class (module linkedlist) is modelled from its contract: *)
(* a sequence of items and a separately maintained size counter.           *)
(***************************************************************************)
EXTENDS Integers, Sequences, FiniteSets, TLC

\* ------------------------------------------------------------------ bounds
\* values are 1 .. MaxVal, tables have 1 .. MaxBuckets buckets (init_size,
\* 8 by default), hash codes are -MaxHash .. MaxHash
MaxVal == 2
MaxBuckets == 3
MaxHash == 1

\* def __init__(self, init_size=8)
DefaultInitSize == 8

\* the keys test_hash_table sets
Keys == {"I", "V", "X"}
Values == 1..MaxVal
\* the (key, value) tuples a bucket can hold
Entries == Keys \X Values

HashCodes == (0 - MaxHash)..MaxHash
InitSizes == 1..MaxBuckets

VARIABLES buckets, hashOf, init_size, ref, last

vars == <<buckets, hashOf, init_size, ref, last>>

\* ------------------------------------------------- results of a Python call
\* A call either returns a value, returns None, or raises an exception.
Return(x) == [exc |-> "", ret |-> <<x>>]

ReturnNone == [exc |-> "", ret |-> <<>>]

Raise(e) == [exc |-> e, ret |-> <<>>]

\* ---------------------------------------------- LinkedList (module linkedlist)
LinkedList == [items |-> <<>>, size |-> 0]

LinkedList_items(ll) == ll.items

LinkedList_prepend(ll, item) == [items |-> <<item>> \o ll.items, size |-> ll.size + 1]

RECURSIVE FirstWhere(_, _, _)
\* index of the first item at or after position i that is in the set match, or 0
FirstWhere(s, match, i) ==
  IF i > Len(s) THEN 0
  ELSE IF s[i] \in match THEN i
  ELSE FirstWhere(s, match, i + 1)

\* find(quality): the first item satisfying quality as <<item>>, or <<>> for
\* None; the predicate quality is the set of the items it accepts
LinkedList_find(ll, quality) ==
  LET i == FirstWhere(ll.items, quality, 1)
  IN IF i = 0 THEN <<>> ELSE <<ll.items[i]>>

\* delete(item): removes the first node whose data equals item
LinkedList_delete(ll, item) ==
  LET i == FirstWhere(ll.items, {item}, 1)
  IN IF i = 0 THEN ll
     ELSE [items |-> SubSeq(ll.items, 1, i - 1) \o SubSeq(ll.items, i + 1, Len(ll.items)),
           size |-> ll.size - 1]

\* ------------------------------------------------------------- HashTable
\* Python's % on integers: the result has the sign of the (positive) divisor
PyMod(a, n) == IF a >= 0 THEN a % n ELSE (n - ((0 - a) % n)) % n

\* the % of C, Java, JavaScript: the result has the sign of the dividend
TruncMod(a, n) == IF a >= 0 THEN a % n ELSE 0 - ((0 - a) % n)

hash(key) == hashOf[key]

\* the constructor with range(init_size - 1)
HashTable_init_short(size) == [i \in 1..(size - 1) |-> LinkedList]

HashTable_init(size) == [i \in 1..size |-> LinkedList]

\* the index with a remainder that keeps the sign of the hash code
bucket_index_trunc(b, key) == TruncMod(hash(key), Len(b))

bucket_index(b, key) == PyMod(hash(key), Len(b))

\* self.buckets[index]; Python lists are indexed from 0, sequences from 1
BucketAt(b, index) == b[index + 1]

RECURSIVE items_from(_, _)
items_from(b, i) ==
  IF i > Len(b) THEN <<>>
  ELSE LinkedList_items(b[i]) \o items_from(b, i + 1)

items(b) == items_from(b, 1)

RECURSIVE Column(_, _)
\* the c-th component of each tuple of a sequence of tuples, in order
Column(s, c) == IF s = <<>> THEN <<>> ELSE <<Head(s)[c]>> \o Column(Tail(s), c)

RECURSIVE keys_from(_, _)
keys_from(b, i) ==
  IF i > Len(b) THEN <<>>
  ELSE Column(LinkedList_items(b[i]), 1) \o keys_from(b, i + 1)

keys(b) == keys_from(b, 1)

RECURSIVE values_from(_, _)
values_from(b, i) ==
  IF i > Len(b) THEN <<>>
  ELSE Column(LinkedList_items(b[i]), 2) \o values_from(b, i + 1)

\* values with the inner loop dedented out of the loop over the buckets
values_dedented(b) == Column(LinkedList_items(b[Len(b)]), 2)

values(b) == values_from(b, 1)

RECURSIVE length_from(_, _)
length_from(b, i) ==
  IF i > Len(b) THEN 0
  ELSE b[i].size + length_from(b, i + 1)

\* length starting at the second bucket
length_skip_first(b) == length_from(b, 2)

length(b) == length_from(b, 1)

contains(b, myKey) ==
  LET index == bucket_index(b, myKey)
      bucket == BucketAt(b, index)
      its == LinkedList_items(bucket)
  IN FirstWhere(its, {d \in {its[j] : j \in 1..Len(its)} : d[1] = myKey}, 1) # 0

\* get returning None for an absent key
get_default(b, myKey) ==
  LET index == bucket_index(b, myKey)
      bucket == BucketAt(b, index)
      its == LinkedList_items(bucket)
      i == FirstWhere(its, {d \in {its[j] : j \in 1..Len(its)} : d[1] = myKey}, 1)
  IN IF i # 0 THEN Return(its[i][2]) ELSE ReturnNone

get(b, myKey) ==
  LET index == bucket_index(b, myKey)
      bucket == BucketAt(b, index)
      its == LinkedList_items(bucket)
      i == FirstWhere(its, {d \in {its[j] : j \in 1..Len(its)} : d[1] = myKey}, 1)
  IN IF i # 0 THEN Return(its[i][2]) ELSE Raise("KeyError")

\* delete removing the head of the bucket instead of the located entry
delete_head(b, myKey) ==
  LET index == bucket_index(b, myKey)
      bucket == BucketAt(b, index)
      quality == {data \in Entries : data[1] = myKey}
      result == LinkedList_find(bucket, quality)
  IN IF result # <<>>
     THEN [buckets |-> [b EXCEPT ![index + 1] = LinkedList_delete(bucket, bucket.items[1])],
           out |-> ReturnNone]
     ELSE [buckets |-> b, out |-> Raise("KeyError")]

\* delete treating an absent key as a no-op
delete_silent(b, myKey) ==
  LET index == bucket_index(b, myKey)
      bucket == BucketAt(b, index)
      quality == {data \in Entries : data[1] = myKey}
      result == LinkedList_find(bucket, quality)
  IN IF result # <<>>
     THEN [buckets |-> [b EXCEPT ![index + 1] = LinkedList_delete(bucket, result[1])],
           out |-> ReturnNone]
     ELSE [buckets |-> b, out |-> ReturnNone]

\* delete dropping the head of the bucket before it reports an absent key
delete_head_on_miss(b, myKey) ==
  LET index == bucket_index(b, myKey)
      bucket == BucketAt(b, index)
      quality == {data \in Entries : data[1] = myKey}
      result == LinkedList_find(bucket, quality)
  IN IF result # <<>>
     THEN [buckets |-> [b EXCEPT ![index + 1] = LinkedList_delete(bucket, result[1])],
           out |-> ReturnNone]
     ELSE IF bucket.items = <<>>
     THEN [buckets |-> b, out |-> Raise("KeyError")]
     ELSE [buckets |-> [b EXCEPT ![index + 1] = LinkedList_delete(bucket, bucket.items[1])],
           out |-> Raise("KeyError")]

\* the table after the call and the call's outcome
delete(b, myKey) ==
  LET index == bucket_index(b, myKey)
      bucket == BucketAt(b, index)
      quality == {data \in Entries : data[1] = myKey}
      result == LinkedList_find(bucket, quality)
  IN IF result # <<>>
     THEN [buckets |-> [b EXCEPT ![index + 1] = LinkedList_delete(bucket, result[1])],
           out |-> ReturnNone]
     ELSE [buckets |-> b, out |-> Raise("KeyError")]

\* set prepending first and deleting afterwards
set_prepend_first(b, myKey, myValue) ==
  LET index == bucket_index(b, myKey)
      had == contains(b, myKey)
      b1 == [b EXCEPT ![index + 1] = LinkedList_prepend(BucketAt(b, index), <<myKey, myValue>>)]
      d == IF had THEN delete(b1, myKey) ELSE [buckets |-> b1, out |-> ReturnNone]
  IN [buckets |-> d.buckets, mid |-> b1, out |-> d.out]

\* set without the delete of the existing entry
set_no_delete(b, myKey, myValue) ==
  LET index == bucket_index(b, myKey)
  IN [buckets |-> [b EXCEPT ![index + 1] = LinkedList_prepend(BucketAt(b, index), <<myKey, myValue>>)],
      mid |-> b,
      out |-> ReturnNone]

\* set prepending to the first bucket whatever the index
set_first_bucket(b, myKey, myValue) ==
  LET d == IF contains(b, myKey) THEN delete(b, myKey) ELSE [buckets |-> b, out |-> ReturnNone]
      b1 == d.buckets
  IN IF d.out.exc # ""
     THEN [buckets |-> b1, mid |-> b1, out |-> d.out]
     ELSE [buckets |-> [b1 EXCEPT ![1] = LinkedList_prepend(b1[1], <<myKey, myValue>>)],
           mid |-> b1,
           out |-> ReturnNone]

\* set writing the value of a present key in place, at the entry's position
set_in_place(b, myKey, myValue) ==
  LET index == bucket_index(b, myKey)
      bucket == BucketAt(b, index)
      its == LinkedList_items(bucket)
      i == FirstWhere(its, {data \in Entries : data[1] = myKey}, 1)
  IN IF i # 0
     THEN [buckets |-> [b EXCEPT ![index + 1].items[i] = <<myKey, myValue>>],
           mid |-> b,
           out |-> ReturnNone]
     ELSE [buckets |-> [b EXCEPT ![index + 1] = LinkedList_prepend(bucket, <<myKey, myValue>>)],
           mid |-> b,
           out |-> ReturnNone]

\* the table after the call, the table between the delete and the prepend,
\* and the call's outcome (an exception of the inner delete propagates)
set(b, myKey, myValue) ==
  LET index == bucket_index(b, myKey)
      d == IF contains(b, myKey) THEN delete(b, myKey) ELSE [buckets |-> b, out |-> ReturnNone]
      b1 == d.buckets
  IN IF d.out.exc # ""
     THEN [buckets |-> b1, mid |-> b1, out |-> d.out]
     ELSE [buckets |-> [b1 EXCEPT ![index + 1] =
                          LinkedList_prepend(BucketAt(b1, index), <<myKey, myValue>>)],
           mid |-> b1,
           out |-> ReturnNone]

\* --------------------------------------------------- the abstract dictionary
\* ref[k] is <<>> when k is not set and <<v>> when k is set to v
RefPresent(k) == ref[k] # <<>>

RefKeys == {k \in Keys : RefPresent(k)}

\* ------------------------------------------------------------- the calls
Call(op, args) == [op |-> op, args |-> args]

\* the record of a finished call: what was called, its outcome, the bucket
\* index it computed, length() and presence of the key before the call, and
\* whether the call before it was a set of the same key
Done(op, args, out, b) ==
  [op |-> op, args |-> args, out |-> out,
   index |-> IF args = <<>> THEN 0 ELSE bucket_index(b, args[1]),
   lenBefore |-> length(b),
   had |-> IF args = <<>> THEN FALSE ELSE RefPresent(args[1]),
   again |-> op = "set" /\ last.op = "set" /\ last.args[1] = args[1]]

\* The process's hash function: any function from keys to hash codes.  The
\* table compares keys only for equality, so renaming the keys maps a run
\* under one hash function to a run under the renamed one; the functions are
\* therefore taken up to a renaming of the keys, the one listed being the
\* one that does not decrease along I, V, X.
HashFunctions ==
  {h \in [Keys -> HashCodes] : h["I"] <= h["V"] /\ h["V"] <= h["X"]}

Init ==
  /\ init_size \in InitSizes
  /\ buckets = HashTable_init(init_size)
  /\ hashOf \in HashFunctions
  /\ ref = [k \in Keys |-> <<>>]
  /\ last = [op |-> "init", args |-> <<>>, out |-> ReturnNone,
             index |-> 0, lenBefore |-> 0, had |-> FALSE, again |-> FALSE]

Set ==
  \E k \in Keys, v \in Values :
    LET r == set(buckets, k, v) IN
    /\ buckets' = r.buckets
    /\ ref' = [ref EXCEPT ![k] = <<v>>]
    /\ last' = Done("set", <<k, v>>, r.out, buckets)
    /\ UNCHANGED <<hashOf, init_size>>

Delete ==
  \E k \in Keys :
    LET r == delete(buckets, k) IN
    /\ buckets' = r.buckets
    /\ ref' = [ref EXCEPT ![k] = <<>>]
    /\ last' = Done("delete", <<k>>, r.out, buckets)
    /\ UNCHANGED <<hashOf, init_size>>

\* get moving the entry it finds to the front of its bucket
Get_move_to_front ==
  \E k \in Keys :
    LET r == get(buckets, k) IN
    /\ buckets' = IF r.exc = "" THEN set(buckets, k, r.ret[1]).buckets ELSE buckets
    /\ last' = Done("get", <<k>>, r, buckets)
    /\ UNCHANGED <<hashOf, init_size, ref>>

Get ==
  \E k \in Keys :
    /\ last' = Done("get", <<k>>, get(buckets, k), buckets)
    /\ UNCHANGED <<buckets, hashOf, init_size, ref>>

Contains ==
  \E k \in Keys :
    /\ last' = Done("contains", <<k>>, Return(contains(buckets, k)), buckets)
    /\ UNCHANGED <<buckets, hashOf, init_size, ref>>

Length ==
  /\ last' = Done("length", <<>>, Return(length(buckets)), buckets)
  /\ UNCHANGED <<buckets, hashOf, init_size, ref>>

ItemsCall ==
  /\ last' = Done("items", <<>>, Return(items(buckets)), buckets)
  /\ UNCHANGED <<buckets, hashOf, init_size, ref>>

KeysCall ==
  /\ last' = Done("keys", <<>>, Return(keys(buckets)), buckets)
  /\ UNCHANGED <<buckets, hashOf, init_size, ref>>

ValuesCall ==
  /\ last' = Done("values", <<>>, Return(values(buckets)), buckets)
  /\ UNCHANGED <<buckets, hashOf, init_size, ref>>

Next ==
  \/ Set
  \/ Delete
  \/ Get
  \/ Contains
  \/ Length
  \/ ItemsCall
  \/ KeysCall
  \/ ValuesCall

Spec == Init /\ [][Next]_vars

\* ------------------------------------------------------------ properties
\* the key and the value of the last call
LastKey == last.args[1]

LastValue == last.args[2]

Returned == last.out.exc = ""

\* the positions of items() that hold an entry for key k
EntriesOf(b, k) == {i \in 1..Len(items(b)) : items(b)[i][1] = k}

\* the keys stored in the same bucket as key k
StoredWith(b, k) ==
  LET its == LinkedList_items(BucketAt(b, bucket_index(b, k)))
  IN {its[j][1] : j \in 1..Len(its)}

\* C1: round trip. After set(k, v) has returned, in whatever table it was
\* called, get(k) returns v and contains(k) returns True.
C1_RoundTrip ==
  (last.op = "set" /\ Returned) =>
    /\ get(buckets, LastKey) = Return(LastValue)
    /\ contains(buckets, LastKey) = TRUE

\* a set of a key that was present, in a bucket shared with another key
C1_Witness ==
  /\ last.op = "set" /\ Returned /\ last.had
  /\ StoredWith(buckets, LastKey) # {LastKey}
  /\ get(buckets, LastKey) = Return(LastValue)

\* C2: upsert. After set(k, v1) followed by set(k, v2) there is exactly one
\* entry for k, get(k) returns v2, and length() is what it was before the
\* second call.
C2_Upsert ==
  (last.op = "set" /\ last.again /\ Returned) =>
    /\ Cardinality(EntriesOf(buckets, LastKey)) = 1
    /\ get(buckets, LastKey) = Return(LastValue)
    /\ length(buckets) = last.lenBefore

\* a second set of the same key with another value than the first
C2_Witness ==
  /\ last.op = "set" /\ last.again /\ Returned
  /\ ref[LastKey] = <<LastValue>>
  /\ LastValue = 2
  /\ length(buckets) = last.lenBefore
  /\ length(buckets) >= 2

\* C3: deletion. After delete(k) has returned for a key that was present,
\* contains(k) is False and get(k) raises KeyError.
C3_Deletion ==
  (last.op = "delete" /\ last.had /\ Returned) =>
    /\ contains(buckets, LastKey) = FALSE
    /\ get(buckets, LastKey) = Raise("KeyError")

\* a delete of a present key that leaves other keys in its bucket
C3_Witness ==
  /\ last.op = "delete" /\ last.had /\ Returned
  /\ StoredWith(buckets, LastKey) # {}
  /\ get(buckets, LastKey) = Raise("KeyError")

\* C4: absence errors. For a key that is not present (never set, or deleted),
\* get raises KeyError and delete raises KeyError: get returns no default,
\* delete is no silent no-op.
C4_AbsenceErrors ==
  /\ \A k \in Keys : ~RefPresent(k) =>
       /\ get(buckets, k) = Raise("KeyError")
       /\ delete(buckets, k).out = Raise("KeyError")
  /\ (last.op \in {"get", "delete"} /\ ~last.had) => last.out = Raise("KeyError")

\* a delete of an absent key whose bucket holds other keys
C4_Witness ==
  /\ last.op = "delete" /\ ~last.had
  /\ last.out = Raise("KeyError")
  /\ StoredWith(buckets, LastKey) # {}
  /\ get(buckets, LastKey) = Raise("KeyError")

\* C5: count. length(), the sum of the buckets' size counters, is the number
\* of distinct keys currently set, and the length of keys() and of items().
C5_Count ==
  /\ length(buckets) = Cardinality(RefKeys)
  /\ length(buckets) = Cardinality({items(buckets)[i][1] : i \in 1..Len(items(buckets))})
  /\ length(buckets) = Len(keys(buckets))
  /\ length(buckets) = Len(items(buckets))

\* after an overwriting set: two keys counted, the first bucket not empty
C5_Witness ==
  /\ last.op = "set" /\ last.had
  /\ length(buckets) = 2
  /\ Len(keys(buckets)) = 2
  /\ buckets[1].size >= 1

\* C6: key uniqueness. items() never holds two entries with the same key, so
\* a key is in at most one bucket and at most once in it.
C6_KeyUnique ==
  \A i, j \in 1..Len(items(buckets)) :
    items(buckets)[i][1] = items(buckets)[j][1] => i = j

\* a key set again while its bucket holds another key
C6_Witness ==
  /\ last.op = "set" /\ last.had
  /\ Cardinality(EntriesOf(buckets, LastKey)) = 1
  /\ Cardinality(StoredWith(buckets, LastKey)) >= 2

\* C7: refinement. For every number of buckets and every hash function the
\* table agrees with the dictionary ref driven by the same set and delete
\* calls: get(k) (value or KeyError), contains(k) and length(), for every k.
C7_Refinement ==
  /\ \A k \in Keys :
       /\ get(buckets, k) = IF RefPresent(k) THEN Return(ref[k][1]) ELSE Raise("KeyError")
       /\ contains(buckets, k) = RefPresent(k)
  /\ length(buckets) = Cardinality(RefKeys)

\* one bucket, where all keys collide, holding three keys, one of them read
C7_Witness ==
  /\ Len(buckets) = 1
  /\ length(buckets) = 3
  /\ last.op = "get" /\ last.out = Return(ref[LastKey][1])

\* C8: the bucket index. For every key, also one with a negative hash code,
\* _bucket_index is in 0 .. len(buckets) - 1, and the index a call computed
\* is the index computed again on the table after the call.
C8_IndexRange ==
  /\ \A k \in Keys : bucket_index(buckets, k) \in 0..(Len(buckets) - 1)
  /\ last.args # <<>> => last.index = bucket_index(buckets, LastKey)

\* a call on a key with a negative hash code in a table of several buckets
C8_Witness ==
  /\ last.args # <<>>
  /\ hash(LastKey) < 0
  /\ Len(buckets) >= 2
  /\ bucket_index(buckets, LastKey) = Len(buckets) - 1

\* the number of entries in the buckets before bucket number i (from 1)
RECURSIVE Offset(_, _)
Offset(b, i) == IF i <= 1 THEN 0 ELSE Offset(b, i - 1) + Len(b[i - 1].items)

\* C9: enumeration. items() is the buckets' entries, bucket after bucket and
\* front to back within a bucket; keys() and values() have its length and
\* hold at each position the key and the value of the entry at that position.
C9_Enumeration ==
  /\ Len(items(buckets)) = Offset(buckets, Len(buckets) + 1)
  /\ \A i \in 1..Len(buckets) : \A j \in 1..Len(buckets[i].items) :
       items(buckets)[Offset(buckets, i) + j] = buckets[i].items[j]
  /\ Len(keys(buckets)) = Len(items(buckets))
  /\ Len(values(buckets)) = Len(items(buckets))
  /\ \A n \in 1..Len(items(buckets)) :
       /\ keys(buckets)[n] = items(buckets)[n][1]
       /\ values(buckets)[n] = items(buckets)[n][2]

\* an enumeration of a table with entries in two buckets, two in one of them
C9_Witness ==
  /\ last.op \in {"items", "keys", "values"}
  /\ \E i, j \in 1..Len(buckets) :
       i < j /\ Len(buckets[i].items) >= 2 /\ Len(buckets[j].items) >= 1
  /\ \E n \in 1..Len(values(buckets)) : values(buckets)[n] # values(buckets)[1]

\* C10: placement. Every entry (k, v) stored in bucket number i has
\* _bucket_index(k) = i, so the scan of the computed bucket misses no entry.
C10_Placement ==
  \A i \in 1..Len(buckets) : \A j \in 1..Len(buckets[i].items) :
    bucket_index(buckets, buckets[i].items[j][1]) = i - 1

\* entries in a bucket other than the first, one under a negative hash code
C10_Witness ==
  /\ \E i \in 2..Len(buckets) : \E j \in 1..Len(buckets[i].items) :
       hash(buckets[i].items[j][1]) < 0
  /\ length(buckets) = 3

\* the key and the value of the call that makes a step
StepKey == last'.args[1]

StepValue == last'.args[2]

RECURSIVE WithoutKey(_, _)
\* the entries of a sequence whose key is not k, in their order
WithoutKey(s, k) ==
  IF s = <<>> THEN <<>>
  ELSE IF Head(s)[1] = k THEN WithoutKey(Tail(s), k)
  ELSE <<Head(s)>> \o WithoutKey(Tail(s), k)

\* C11: move to front. A returned set(k, v) makes (k, v) the first entry of
\* bucket _bucket_index(k); the rest of the bucket is what the bucket held
\* before without the entry of k, in the same order, whether k was present
\* or absent.
C11_MoveToFront ==
  [][(last'.op = "set" /\ last'.out.exc = "") =>
       BucketAt(buckets', bucket_index(buckets, StepKey)).items =
         <<(<<StepKey, StepValue>>)>> \o
           WithoutKey(BucketAt(buckets, bucket_index(buckets, StepKey)).items, StepKey)]_vars

\* a set of a present key to its other value, first of a bucket of three
C11_Witness ==
  /\ last.op = "set" /\ Returned /\ last.had
  /\ Len(BucketAt(buckets, last.index).items) = 3
  /\ BucketAt(buckets, last.index).items[1] = <<LastKey, LastValue>>
  /\ length(buckets) = last.lenBefore

\* C12: length deltas. A set of an absent key adds exactly 1 to length(); a
\* delete that returns takes exactly 1 from it and removes from items() one
\* entry, the entry of the key.
C12_LengthDeltas ==
  [][/\ (last'.op = "set" /\ ~last'.had /\ last'.out.exc = "") =>
          length(buckets') = length(buckets) + 1
     /\ (last'.op = "delete" /\ last'.out.exc = "") =>
          /\ length(buckets') = length(buckets) - 1
          /\ Len(items(buckets')) = Len(items(buckets)) - 1
          /\ items(buckets') = WithoutKey(items(buckets), StepKey)]_vars

\* a delete that returned and left two entries, the bucket of the key not empty
C12_Witness ==
  /\ last.op = "delete" /\ Returned
  /\ last.lenBefore = 3
  /\ length(buckets) = 2
  /\ StoredWith(buckets, LastKey) # {}

\* C13: the bucket array. The table is built with exactly init_size buckets,
\* all empty (8 of them by default), and after any calls of set and delete
\* the number of buckets is still init_size.
C13_FixedBuckets ==
  /\ Len(buckets) = init_size
  /\ last.op = "init" =>
       /\ \A i \in 1..Len(buckets) : buckets[i] = LinkedList
       /\ length(buckets) = 0
       /\ items(buckets) = <<>>
  /\ Len(HashTable_init(DefaultInitSize)) = DefaultInitSize
  /\ length(HashTable_init(DefaultInitSize)) = 0

\* three buckets still, after a delete that left two entries
C13_Witness ==
  /\ init_size = 3
  /\ Len(buckets) = 3
  /\ last.op = "delete" /\ Returned
  /\ length(buckets) = 2

\* C14: the update is not atomic. A set of a present key passes, between its
\* delete and its prepend, through a table in which the key is absent and
\* length() is one less than before the call.
C14_NonAtomic ==
  \A k \in Keys, v \in Values :
    contains(buckets, k) =>
      /\ contains(set(buckets, k, v).mid, k) = FALSE
      /\ length(set(buckets, k, v).mid) = length(buckets) - 1
      /\ contains(set(buckets, k, v).buckets, k) = TRUE
      /\ length(set(buckets, k, v).buckets) = length(buckets)

\* after a set of a present key, which can be set again
C14_Witness ==
  /\ last.op = "set" /\ Returned /\ last.had
  /\ contains(buckets, LastKey)
  /\ length(set(buckets, LastKey, LastValue).mid) = last.lenBefore - 1
  /\ last.lenBefore >= 2

\* C15: frame. set(k, v) and delete(k) change no bucket but bucket
\* _bucket_index(k), and contains(k2) and get(k2) are the same before and
\* after for every other key k2, colliding with k or not.
C15_Frame ==
  [][last'.op \in {"set", "delete"} =>
       /\ Len(buckets') = Len(buckets)
       /\ \A i \in 1..Len(buckets) :
            i # bucket_index(buckets, StepKey) + 1 => buckets'[i] = buckets[i]
       /\ \A k2 \in Keys \ {StepKey} :
            /\ contains(buckets', k2) = contains(buckets, k2)
            /\ get(buckets', k2) = get(buckets, k2)]_vars

\* a delete that left a colliding key in its bucket and a key in another one
C15_Witness ==
  /\ last.op = "delete" /\ Returned
  /\ StoredWith(buckets, LastKey) # {}
  /\ \E i \in 1..Len(buckets) : i # last.index + 1 /\ buckets[i].size >= 1

\* C16: no change on error. A get or a delete that raises KeyError leaves the
\* table as it was: the same buckets, entries, order and length().
C16_ErrorKeepsState ==
  [][(last'.op \in {"get", "delete"} /\ last'.out.exc = "KeyError") =>
       /\ buckets' = buckets
       /\ items(buckets') = items(buckets)
       /\ length(buckets') = length(buckets)]_vars

\* a delete that raised KeyError on a bucket holding two other keys
C16_Witness ==
  /\ last.op = "delete" /\ last.out = Raise("KeyError")
  /\ Cardinality(StoredWith(buckets, LastKey)) = 2
  /\ length(buckets) = last.lenBefore

\* C17: queries read only. contains, get, keys, values, items and length
\* leave the table as it was; a get or contains that finds its key does not
\* move the entry, so items() is the same before and after.
C17_QueriesReadOnly ==
  [][last'.op \in {"contains", "get", "keys", "values", "items", "length"} =>
       /\ buckets' = buckets
       /\ items(buckets') = items(buckets)]_vars

\* a get that found a key which is not the first entry of its bucket
C17_Witness ==
  /\ last.op = "get" /\ Returned
  /\ BucketAt(buckets, last.index).items[1][1] # LastKey
  /\ last.out = Return(ref[LastKey][1])

====
